---------------------------- MODULE Spec2Model ----------------------------
(***************************************************************************)
(* Model of src/imei.py: the Returns Tracker (IMEI) lookup tool.           *)
(*                                                                         *)
(* Strings are sequences of one-character strings, so that strip,          *)
(* endswith, slicing, equality and regular-expression search are computed  *)
(* character by character as Python computes them.                         *)
(***************************************************************************)
EXTENDS Integers, Sequences, FiniteSets, TLC

VARIABLES
    df,        \* the DataFrame handed to search_imei / returned by load_data
    query,     \* the raw text typed in the search box
    result,    \* what search_imei returned
    rawdf,     \* the DataFrame as pd.read_excel parsed it (before normalisation)
    now,       \* time.time(), in whole seconds
    cache,     \* st.cache_data's entries for fetch_excel_file
    uploaded,  \* the file the sidebar's file_uploader holds, if any
    files,     \* the temporary files on disk: path -> content
    pc,        \* where the running load_data is: idle, or blocked in a request
    cur,       \* the running load_data's url, timestamp, temp_file_path, file_id
    request,   \* the HTTP request in flight
    attempts,  \* the requests the last fetch issued, in order
    method1,   \* what download_from_google_drive returned in the last fetch
    method2,   \* what download_from_export_link returned in the last fetch
    accepted,  \* the response a download method of the last fetch took for the file
    returned,  \* what the last run of fetch_excel_file's body returned
    fetchLog,  \* the executions of the download methods (url, time) since the
               \* cache was last cleared or the uploader last changed
    lastLoad,  \* the last load_data: cache hit or not, and the df of the fetching load
    misses     \* how many times the body of fetch_excel_file has run

tableVars == <<df, query, result, rawdf>>
pipeVars == <<now, cache, uploaded, files, pc, cur, request, attempts, method1,
              method2, accepted, returned, fetchLog, lastLoad, misses>>
vars == <<tableVars, pipeVars>>

---------------------------------------------------------------------------
(* Bounds of the model *)

\* longest tail appended to the 13-digit stem to build a query
MaxSuffix == 2
\* most rows of a table
MaxRows == 2
\* the clock stops here
MaxTime == 1
\* most load_data runs that miss the cache
MaxFetches == 2

(* Program constants *)

\* src/imei.py:267  if len(imei_str) < 15: return "short"
MinImeiLen == 15
\* src/imei.py:85 and 119  if file_size < 1024
MinFileSize == 1024
\* src/imei.py:137  @st.cache_data(ttl=300)
CacheTtl == 300

---------------------------------------------------------------------------
(* Python string primitives *)

\* The characters str.strip() removes: those str.isspace() holds of.  A
\* character is a one-character string; a character a TLA+ string cannot
\* spell is written as its code point, "U+000B".
Whitespace ==
    { " ", "\t", "\n", "\r", "\f", "U+000B", "U+001C", "U+001D", "U+001E", "U+001F",
      "U+0085", "U+00A0", "U+1680", "U+2000", "U+2001", "U+2002", "U+2003",
      "U+2004", "U+2005", "U+2006", "U+2007", "U+2008", "U+2009", "U+200A",
      "U+2028", "U+2029", "U+202F", "U+205F", "U+3000" }

RECURSIVE LStrip(_)
LStrip(s) == IF s # <<>> /\ Head(s) \in Whitespace THEN LStrip(Tail(s)) ELSE s

RECURSIVE RStrip(_)
RStrip(s) ==
    IF s # <<>> /\ s[Len(s)] \in Whitespace
    THEN RStrip(SubSeq(s, 1, Len(s) - 1))
    ELSE s

\* str.strip()
Strip(s) == RStrip(LStrip(s))

\* str.endswith(suffix)
EndsWith(s, suf) ==
    /\ Len(s) >= Len(suf)
    /\ SubSeq(s, Len(s) - Len(suf) + 1, Len(s)) = suf

\* literal substring test:  sub in s
Contains(s, sub) ==
    \E i \in 0..(Len(s) - Len(sub)) : SubSeq(s, i + 1, i + Len(sub)) = sub

DotZero == <<".", "0">>

---------------------------------------------------------------------------
(* Cell values of a DataFrame.  A cell is NaN (what pd.read_excel yields   *)
(* for a blank cell), None, an integer, an integer-valued float, or text.  *)
(* A float is held as the two things repr computes from it: sig, its       *)
(* shortest sequence of significant digits that reads back as the same     *)
(* float (at most 17, no trailing zero), and decpt, the number of digits   *)
(* before the decimal point.  144115188075855872.0 is sig 14411518807585587 *)
(* with decpt 18, and 1e23 is sig 1 with decpt 24.                         *)

\* NaN
NullCell == [k |-> "null"]
\* None
NoneCell == [k |-> "none"]
IntCell(d) == [k |-> "int", s |-> d]
FloatCell(sig, decpt) == [k |-> "float", sig |-> sig, decpt |-> decpt]
TextCell(t) == [k |-> "text", s |-> t]

DigitChar(n) == <<"0", "1", "2", "3", "4", "5", "6", "7", "8", "9">>[n + 1]

RECURSIVE DecimalDigits(_)
DecimalDigits(n) ==
    IF n < 10 THEN <<DigitChar(n)>>
    ELSE Append(DecimalDigits(n \div 10), DigitChar(n % 10))

Zeros(n) == [i \in 1..n |-> "0"]

\* the exponent of repr(float): a sign and at least two digits
ExponentText(e) ==
    <<"e", "+">> \o (IF e < 10 THEN <<"0">> ELSE <<>>) \o DecimalDigits(e)

\* repr of an integer-valued float: positional with ".0" below 1e16, the
\* significant digits padded with zeros up to the point (354653661425030.0),
\* and from 1e16 on the significant digits as a mantissa and an exponent
\* (35465366142503000.0 prints as 3.5465366142503e+16, 1e16 as 1e+16,
\* 144115188075855872.0 as 1.4411518807585587e+17)
FloatRepr(sig, decpt) ==
    IF decpt <= 16 THEN sig \o Zeros(decpt - Len(sig)) \o DotZero
    ELSE <<Head(sig)>> \o (IF Len(sig) > 1 THEN <<".">> \o Tail(sig) ELSE <<>>)
            \o ExponentText(decpt - 1)

\* str(value); NaN prints as "nan", None as "None"
PyStr(c) ==
    CASE c.k = "null"  -> <<"n", "a", "n">>
      [] c.k = "none"  -> <<"N", "o", "n", "e">>
      [] c.k = "int"   -> c.s
      [] c.k = "float" -> FloatRepr(c.sig, c.decpt)
      [] c.k = "text"  -> c.s

\* imei_value is None or pd.isna(imei_value)
IsNa(c) == c.k = "none" \/ c.k = "null"

\* src/imei.py:21-38
clean_imei(c) ==
    IF IsNa(c) THEN <<>>
    ELSE LET imei_str == Strip(PyStr(c))
         IN  IF EndsWith(imei_str, DotZero)
             THEN SubSeq(imei_str, 1, Len(imei_str) - 2)
             ELSE imei_str

---------------------------------------------------------------------------
(* DataFrames: a set of column names and a sequence of rows, each row a    *)
(* function from the column names to values.  Column names are strings     *)
(* (character sequences) because load_data tests them by substring.        *)

ColIMEI == <<"I", "M", "E", "I">>
ColStore == <<"S", "t", "o", "r", "e">>
ColUnnamed0 == <<"U", "n", "n", "a", "m", "e", "d", ":", " ", "0">>
ColUnnamed20 == <<"U", "n", "n", "a", "m", "e", "d", ":", " ", "2", "0">>
ColDispute == <<"D", "i", "s", "p", "u", "t", "e", " ", "R", "e", "a", "s", "o", "n">>

\* pd.DataFrame()
EmptyFrame == [cols |-> {}, rows |-> <<>>]

\* the df not yet produced
NoFrame == [cols |-> {}, rows |-> <<>>, pending |-> TRUE]

\* df.empty: no rows or no columns
df_empty(frame) == frame.rows = <<>> \/ frame.cols = {}

\* src/imei.py:225  the column names load_data drops
IsJunkColumn(col) ==
    \/ Contains(col, <<"U", "n", "n", "a", "m", "e", "d", ":", " ", "3", "4">>)
    \/ Contains(col, <<"U", "n", "n", "a", "m", "e", "d", ":", " ", "0">>)
    \/ Contains(col, <<"D", "i", "s", "p", "u", "t", "e">>)

\* src/imei.py:231  df['IMEI'].astype(str): every cell becomes its str(), a
\* NaN cell the text "nan" (pandas 1.x and 2.x, which this script's Streamlit
\* calls belong with)
astype_str(c) == TextCell(PyStr(c))

\* src/imei.py:231-233  the two assignments to df['IMEI']
normalize_imei_cell(c) == clean_imei(astype_str(c))

\* src/imei.py:217-245  load_data after pd.read_excel returned `raw`
load_frame(raw) ==
    IF df_empty(raw)
    THEN EmptyFrame
    ELSE LET kept == {c \in raw.cols : ~IsJunkColumn(c)}
         IN  [cols |-> kept,
              rows |-> [i \in 1..Len(raw.rows) |->
                          [c \in kept |->
                              IF c = ColIMEI
                              THEN normalize_imei_cell(raw.rows[i][c])
                              ELSE raw.rows[i][c]]]]

---------------------------------------------------------------------------
(* Regular expressions, as Series.str.contains(pat) uses them: pandas      *)
(* passes pat to re.search (regex=True is the default).  The model covers  *)
(* the patterns the alphabet can spell: a digit or a space matches itself, *)
(* "." matches any character except a newline (no DOTALL flag), and an     *)
(* unclosed "(" makes re.compile raise re.error.                           *)

RegexCompiles(pat) == \A i \in 1..Len(pat) : pat[i] # "("

RegexSearch(pat, s) ==
    \E i \in 0..(Len(s) - Len(pat)) :
        \A j \in 1..Len(pat) :
            \/ pat[j] = "." /\ s[i + j] # "\n"
            \/ pat[j] = s[i + j]

\* src/imei.py:278  df['IMEI'].str.contains(imei_str, na=False), per value
str_contains(s, pat) == RegexSearch(pat, s)

---------------------------------------------------------------------------
(* search_imei *)

Short == [tag |-> "short"]
NotFound == [tag |-> "none", stage |-> "fuzzy"]
NoColumn == [tag |-> "none", stage |-> "column"]
Found(row, stage) == [tag |-> "found", record |-> row, stage |-> stage]
NoResult == [tag |-> "pending"]

Min(S) == CHOOSE x \in S : \A y \in S : x <= y

Max(S) == CHOOSE x \in S : \A y \in S : x >= y

\* a slip: matches.iloc[-1], the last matching row
LastRecord(frame, idx) == frame.rows[Max(idx)]

\* matches.iloc[0].to_dict()
FirstRecord(frame, idx) == frame.rows[Min(idx)]

\* src/imei.py:271  the rows the boolean mask keeps
exact_matches(frame, imei_str) ==
    {i \in 1..Len(frame.rows) : frame.rows[i][ColIMEI] = imei_str}

\* src/imei.py:277-282  (an exception of the scan leaves no flexible match)
flexible_matches(frame, imei_str) ==
    IF RegexCompiles(imei_str)
    THEN {i \in 1..Len(frame.rows) : str_contains(frame.rows[i][ColIMEI], imei_str)}
    ELSE {}

\* a slip: the length gate looks at the raw input, not at the cleaned one
search_imei_raw_length(imei_value, frame) ==
    IF ColIMEI \notin frame.cols THEN NoColumn
    ELSE LET imei_str == clean_imei(TextCell(imei_value))
         IN  IF Len(imei_value) < MinImeiLen THEN Short
             ELSE IF exact_matches(frame, imei_str) # {}
                  THEN Found(FirstRecord(frame, exact_matches(frame, imei_str)), "exact")
             ELSE IF flexible_matches(frame, imei_str) # {}
                  THEN Found(FirstRecord(frame, flexible_matches(frame, imei_str)), "fuzzy")
             ELSE NotFound

\* src/imei.py:252-284
search_imei(imei_value, frame) ==
    IF ColIMEI \notin frame.cols THEN NoColumn
    ELSE LET imei_str == clean_imei(TextCell(imei_value))
         IN  IF Len(imei_str) < MinImeiLen THEN Short
             ELSE IF exact_matches(frame, imei_str) # {}
                  THEN Found(FirstRecord(frame, exact_matches(frame, imei_str)), "exact")
             ELSE IF flexible_matches(frame, imei_str) # {}
                  THEN Found(FirstRecord(frame, flexible_matches(frame, imei_str)), "fuzzy")
             ELSE NotFound

---------------------------------------------------------------------------
(* Inputs of the table specification *)

\* a 13-digit stem: two more characters make a 15-character identifier
Stem == <<"3", "5", "4", "6", "5", "3", "6", "6", "1", "4", "2", "5", "0">>

Alphabet == {"0", "3", ".", " ", "\t", "("}

RECURSIVE Words(_)
Words(n) ==
    IF n = 0 THEN {<<>>}
    ELSE Words(n - 1) \cup {Append(w, a) : w \in {v \in Words(n - 1) : Len(v) = n - 1}, a \in Alphabet}

Queries == {Stem \o w : w \in Words(MaxSuffix)}

RawImeiCells ==
    { NullCell,
      FloatCell(Stem \o <<"3">>, 15),
      FloatCell(Stem \o <<"3">>, 17),
      IntCell(Stem \o <<"3", "3">>),
      TextCell(<<"9">> \o Stem \o <<"3", "0", "1">>),
      TextCell(<<"\t", "9">> \o Stem \o <<"3", "(", " ">>),
      TextCell(Stem \o <<"3", "\n", "1">>),
      TextCell(Stem \o <<"3", "0", ".", "0", ".", "0">>) }

RowNumber(i) == IntCell(<<CASE i = 1 -> "1" [] i = 2 -> "2" [] i = 3 -> "3" [] OTHER -> "4">>)

ColumnSets ==
    { {ColStore},
      {ColIMEI, ColStore},
      {ColIMEI, ColStore, ColUnnamed0, ColUnnamed20, ColDispute} }

RawRow(cols, i, cell) ==
    [c \in cols |-> IF c = ColIMEI THEN cell ELSE IF c = ColStore THEN RowNumber(i) ELSE NullCell]

RawTables ==
    { [cols |-> cols, rows |-> [i \in 1..n |-> RawRow(cols, i, cells[i])]] :
        <<cols, n, cells>> \in
          { t \in ColumnSets \X (0..MaxRows) \X [1..MaxRows -> RawImeiCells] :
              /\ \A i \in (t[2] + 1)..MaxRows : t[3][i] = NullCell
              /\ (ColIMEI \notin t[1] => \A i \in 1..MaxRows : t[3][i] = NullCell) } }

---------------------------------------------------------------------------
(* The table specification: pd.read_excel parsed some table, load_data     *)
(* normalises it, the operator searches it.                                *)

PipeIdle ==
    /\ now = 0
    /\ cache = {}
    /\ uploaded = [k |-> "none"]
    /\ files = <<>>
    /\ pc = "idle"
    /\ cur = [k |-> "none"]
    /\ request = [k |-> "none"]
    /\ attempts = <<>>
    /\ method1 = "none"
    /\ method2 = "none"
    /\ accepted = [k |-> "none"]
    /\ returned = [k |-> "nothing"]
    /\ fetchLog = <<>>
    /\ lastLoad = [how |-> "none"]
    /\ misses = 0

TableInit ==
    /\ PipeIdle
    /\ rawdf \in RawTables
    /\ df = NoFrame
    /\ query = <<>>
    /\ result = NoResult

\* load_data, from the parsed table to the returned df
Normalize ==
    /\ df = NoFrame
    /\ df' = load_frame(rawdf)
    /\ UNCHANGED <<rawdf, query, result, pipeVars>>

\* src/imei.py:342-347  the Search button: with an empty df search_imei is
\* not called and no result is assigned; otherwise result = search_imei(imei, df)
Search ==
    /\ df # NoFrame
    /\ result = NoResult
    /\ \E q \in Queries :
        /\ query' = q
        /\ result' = IF df_empty(df) THEN result ELSE search_imei(q, df)
    /\ UNCHANGED <<rawdf, df, pipeVars>>

TableNext == Normalize \/ Search

SpecTable == TableInit /\ [][TableNext]_vars

---------------------------------------------------------------------------
(* Claims about search_imei and the IMEI column, under SpecTable *)

Searched == result # NoResult
HasImeiColumn == ColIMEI \in df.cols
NormalizedQuery == clean_imei(TextCell(query))
LongEnough == Len(NormalizedQuery) >= MinImeiLen
ImeiAt(i) == df.rows[i][ColIMEI]
ExactRows == {i \in 1..Len(df.rows) : ImeiAt(i) = NormalizedQuery}
SubstringRows == {i \in 1..Len(df.rows) : Contains(ImeiAt(i), NormalizedQuery)}

\* C1: with an IMEI column and a normalized query of 15 or more characters,
\* if some row's IMEI equals the normalized query, search_imei returns the
\* record of the first such row, found by the exact stage and not by the
\* fuzzy one.
C1_ExactFirstRow ==
    (Searched /\ HasImeiColumn /\ LongEnough /\ ExactRows # {}) =>
        /\ result.tag = "found"
        /\ result.stage = "exact"
        /\ \E i \in ExactRows :
            /\ \A j \in ExactRows : i <= j
            /\ result.record = df.rows[i]

\* two rows carry the searched identifier and the search has answered
C1_Witness ==
    /\ Searched /\ HasImeiColumn /\ LongEnough
    /\ Cardinality(ExactRows) >= 2
    /\ result.tag = "found"

\* C2: with an IMEI column, a normalized query of 15 or more characters and
\* no exact match, search_imei returns the first row whose IMEI contains the
\* query as a literal substring, and nothing exactly when no IMEI contains it.
C2_LiteralSubstring ==
    (Searched /\ HasImeiColumn /\ LongEnough /\ ExactRows = {}) =>
        IF SubstringRows = {}
        THEN result.tag = "none"
        ELSE /\ result.tag = "found"
             /\ \E i \in SubstringRows :
                 /\ \A j \in SubstringRows : i <= j
                 /\ result.record = df.rows[i]

\* C3 as stated: a normalized query shorter than 15 characters gets "short"
\* whatever the table is, a table without an IMEI column included.
C3_ShortAnyTable ==
    (Searched /\ ~LongEnough) => result = Short

\* C3 amended: a normalized query shorter than 15 characters gets "short"
\* from every table that has an IMEI column, whatever its rows; a table
\* without the column gets None, whatever the query's length.
C3_ShortWithColumn ==
    Searched =>
        /\ (HasImeiColumn /\ ~LongEnough) => result = Short
        /\ ~HasImeiColumn => result.tag = "none"

\* a query of 15 raw characters that cleans to fewer was refused as short by
\* a table that holds rows
C3_Witness ==
    /\ Searched /\ HasImeiColumn /\ ~LongEnough
    /\ Len(query) >= MinImeiLen
    /\ Len(df.rows) >= 1
    /\ result = Short

\* C4: in the df load_data returns, every IMEI value is a normalized string
\* that does not end with ".0", and a null source cell is the empty string.
C4_ImeiColumnNormalized ==
    (df # NoFrame /\ HasImeiColumn) =>
        \A i \in 1..Len(df.rows) :
            /\ ~EndsWith(ImeiAt(i), DotZero)
            /\ ImeiAt(i) = Strip(ImeiAt(i))
            /\ IsNa(rawdf.rows[i][ColIMEI]) => ImeiAt(i) = <<>>

---------------------------------------------------------------------------
(* URLs.  A URL is a sequence of pieces; a piece is a marker the patterns  *)
(* of extract_file_id_from_url look for, a run of id characters            *)
(* [a-zA-Z0-9_-]+, or other text.                                          *)

IdPieces == {"1vTa0AAq", "0B7xyz"}

NoId == "None"

\* re.search(prefix + "([a-zA-Z0-9_-]+)", url): the places where it matches
PatternHits(url, prefix) ==
    {i \in 1..(Len(url) - 1) : url[i] = prefix /\ url[i + 1] \in IdPieces}

\* src/imei.py:40-54  (pattern3, "/spreadsheets/d/", ends with pattern1's
\* "/d/", so pattern1 has already matched wherever pattern3 would)
extract_file_id_from_url(url) ==
    IF PatternHits(url, "/d/") # {} THEN url[Min(PatternHits(url, "/d/")) + 1]
    ELSE IF PatternHits(url, "id=") # {} THEN url[Min(PatternHits(url, "id=")) + 1]
    ELSE NoId

EmptyUrl == <<>>
SheetUrl == <<"https://docs.google.com/spreadsheets", "/d/", "1vTa0AAq", "/edit?usp=drive_link">>
OpenUrl == <<"https://drive.google.com/open?", "id=", "0B7xyz">>
OtherUrl == <<"https://example.com/returns.xlsx">>

Urls == {EmptyUrl, SheetUrl, OpenUrl, OtherUrl}

---------------------------------------------------------------------------
(* HTTP *)

NoTimeout == "None"

\* requests.get(url): no timeout argument, so requests waits without limit
http_get(kind, file_id) == [k |-> kind, id |-> file_id, timeout |-> NoTimeout]

NoRequest == [k |-> "none"]

ErrorResponse == [k |-> "error"]

\* what a server may answer: status, body size, Content-Type, whether the
\* body's text holds "confirm=" (and a code after it), and what
\* pd.read_excel makes of the body
Responses ==
    {ErrorResponse} \cup
    { r \in [k : {"resp"}, status : {200, 404},
             size : {MinFileSize - 1, MinFileSize},
             ctype : {"text/html", "xlsx"},
             confirm : {"none", "marker", "code"},
             parses : {"no", "rows", "empty"}] :
        /\ r.confirm # "none" => r.ctype = "text/html"
        /\ r.parses # "no" =>
              r.status = 200 /\ r.ctype = "xlsx" /\ r.size >= MinFileSize }

\* what the sidebar reports of the response a method succeeded with
Accepted(r) == [k |-> "resp", status |-> r.status, size |-> r.size, ctype |-> r.ctype]
NoneAccepted == [k |-> "none"]

\* response.content written to temp_file_path
Body(r) == [size |-> r.size, parses |-> r.parses]

\* what NamedTemporaryFile leaves on disk
EmptyFile == [size |-> 0, parses |-> "no"]

\* src/imei.py:74-101  download_from_google_drive once its last response is in:
\* its return value and the temporary files afterwards
google_drive_outcome(r, path, fs) ==
    IF r.k = "error" THEN [ok |-> FALSE, files |-> fs]
    ELSE IF r.status # 200 THEN [ok |-> FALSE, files |-> fs]
    ELSE LET written == [fs EXCEPT ![path] = Body(r)]
         IN  IF written[path].size < MinFileSize
             THEN [ok |-> FALSE, files |-> written]
             ELSE [ok |-> TRUE, files |-> written]

\* src/imei.py:110-128  download_from_export_link once its response is in
export_link_outcome(r, path, fs) ==
    IF r.k = "error" THEN [ok |-> FALSE, files |-> fs]
    ELSE IF r.status # 200 THEN [ok |-> FALSE, files |-> fs]
    ELSE LET written == [fs EXCEPT ![path] = Body(r)]
         IN  IF written[path].size < MinFileSize
             THEN [ok |-> FALSE, files |-> written]
             ELSE [ok |-> TRUE, files |-> written]

\* src/imei.py:64-72  the first response asks for a confirmation and names a code
needs_confirm(r) == r.k = "resp" /\ r.confirm = "code"

---------------------------------------------------------------------------
(* load_data *)

NoneValue == [k |-> "none"]
PathValue(p) == [k |-> "path", path |-> p]
NoUpload == [k |-> "none"]
Uploads == {[k |-> "upload", parses |-> "rows"]}

\* the spreadsheet a well-formed payload holds
PayloadTable ==
    LET cols == {ColIMEI, ColStore, ColUnnamed0}
    IN  [cols |-> cols,
         rows |-> <<RawRow(cols, 1, FloatCell(Stem \o <<"3">>, 15)),
                    RawRow(cols, 2, NullCell)>>]

HeaderOnlyTable == [cols |-> {ColIMEI, ColStore}, rows |-> <<>>]

\* pd.read_excel of a body that parses
read_excel(parses) == IF parses = "rows" THEN PayloadTable ELSE HeaderOnlyTable

RemoveFile(fs, path) == [q \in DOMAIN fs \ {path} |-> fs[q]]

\* src/imei.py:188-250  load_data once fetch_excel_file returned file_source:
\* the df it returns and the temporary files afterwards
load_outcome(file_source, fs) ==
    IF file_source.k = "none"
    THEN [df |-> EmptyFrame, files |-> fs]
    ELSE IF file_source.k = "path" /\ file_source.path \in DOMAIN fs
    THEN IF fs[file_source.path].parses = "no"
         THEN [df |-> EmptyFrame, files |-> fs]
         ELSE [df |-> load_frame(read_excel(fs[file_source.path].parses)),
               files |-> RemoveFile(fs, file_source.path)]
    ELSE IF file_source.k = "upload" /\ file_source.parses # "no"
    THEN [df |-> load_frame(read_excel(file_source.parses)), files |-> fs]
    ELSE [df |-> EmptyFrame, files |-> fs]

\* st.cache_data: the live entry for these arguments, if any
cache_lookup(url, ts) ==
    {e \in cache : e.url = url /\ e.ts = ts /\ now - e.stored < CacheTtl}

\* fetch_excel_file returns `value`: st.cache_data stores it under the
\* arguments, and load_data carries on with it
Return(url, ts, value, fs) ==
    LET out == load_outcome(value, fs)
    IN  /\ cache' = {e \in cache : ~(e.url = url /\ e.ts = ts)} \cup
                    {[url |-> url, ts |-> ts, value |-> value, stored |-> now,
                      originDf |-> out.df]}
        /\ files' = out.files
        /\ df' = out.df
        /\ lastLoad' = [how |-> "fetched", originDf |-> out.df]
        /\ pc' = "idle"
        /\ cur' = [k |-> "none"]
        /\ request' = NoRequest
        /\ returned' = value

---------------------------------------------------------------------------
(* The pipeline specification: the operator's session.  Every rerun of the *)
(* script calls load_data(excel_url); a load that misses the cache blocks  *)
(* in requests.get until the server answers.                               *)

Init ==
    /\ PipeIdle
    /\ rawdf = EmptyFrame
    /\ df = NoFrame
    /\ query = <<>>
    /\ result = NoResult

\* a second passes
Tick ==
    /\ now < MaxTime
    /\ now' = now + 1
    /\ UNCHANGED <<tableVars, cache, uploaded, files, pc, cur, request, attempts,
                   method1, method2, accepted, returned, fetchLog, lastLoad, misses>>

\* the operator puts a file in the sidebar's uploader, or takes it out
Upload ==
    /\ pc = "idle"
    /\ \E u \in Uploads \cup {NoUpload} :
        /\ u # uploaded
        /\ uploaded' = u
    /\ fetchLog' = <<>>
    /\ UNCHANGED <<tableVars, now, cache, files, pc, cur, request, attempts,
                   method1, method2, accepted, returned, lastLoad, misses>>

\* src/imei.py:325-327  Refresh Data: st.cache_data.clear()
Refresh ==
    /\ pc = "idle"
    /\ cache' = {}
    /\ fetchLog' = <<>>
    /\ UNCHANGED <<tableVars, now, uploaded, files, pc, cur, request, attempts,
                   method1, method2, accepted, returned, lastLoad, misses>>

\* src/imei.py:182-186 and 137-172  load_data(url) up to its first request:
\* a cache hit, the uploaded file, no URL, no file id, or method 1's request
Load ==
    /\ pc = "idle"
    /\ \E url \in Urls :
        LET ts == now
            hit == cache_lookup(url, ts)
        IN  IF hit # {}
            THEN LET e == CHOOSE x \in hit : TRUE
                     out == load_outcome(e.value, files)
                 IN  /\ df' = out.df
                     /\ files' = out.files
                     /\ lastLoad' = [how |-> "cached", originDf |-> e.originDf]
                     /\ UNCHANGED <<cache, pc, cur, request, attempts, method1,
                                    method2, accepted, returned, fetchLog, misses>>
            ELSE /\ misses < MaxFetches
                 /\ misses' = misses + 1
                 /\ method1' = "none"
                 /\ method2' = "none"
                 /\ accepted' = NoneAccepted
                 /\ IF uploaded # NoUpload
                    THEN /\ Return(url, ts, uploaded, files)
                         /\ attempts' = <<>>
                         /\ UNCHANGED fetchLog
                    ELSE LET temp_file_path == misses + 1
                             fs == (temp_file_path :> EmptyFile) @@ files
                             file_id == extract_file_id_from_url(url)
                         IN  IF url = EmptyUrl \/ file_id = NoId
                             THEN /\ Return(url, ts, NoneValue, fs)
                                  /\ attempts' = <<>>
                                  /\ UNCHANGED fetchLog
                             ELSE /\ pc' = "method1"
                                  /\ cur' = [url |-> url, ts |-> ts,
                                             path |-> temp_file_path, id |-> file_id]
                                  /\ request' = http_get("uc", file_id)
                                  /\ attempts' = <<"uc">>
                                  /\ fetchLog' = Append(fetchLog,
                                        [url |-> url, t |-> now])
                                  /\ files' = fs
                                  /\ returned' = [k |-> "running"]
                                  /\ UNCHANGED <<df, cache, lastLoad>>
    /\ UNCHANGED <<rawdf, query, result, now, uploaded>>

\* a slip: method 1 failed and the fetch gives up without trying method 2
GiveUpAfterMethod1(fs) ==
    /\ method1' = "failed"
    /\ Return(cur.url, cur.ts, NoneValue, fs)
    /\ UNCHANGED <<attempts, method2>>

\* method 1 failed: src/imei.py:171 issues method 2's request
StartMethod2(fs) ==
    /\ method1' = "failed"
    /\ pc' = "method2"
    /\ request' = http_get("export", cur.id)
    /\ attempts' = Append(attempts, "export")
    /\ files' = fs
    /\ UNCHANGED <<df, cache, lastLoad, cur, method2, returned>>

\* src/imei.py:61-97  the answer to method 1's first request arrives
Method1Response ==
    /\ pc = "method1"
    /\ \E r \in Responses :
        IF needs_confirm(r)
        THEN /\ pc' = "confirm"
             /\ request' = http_get("uc_confirm", cur.id)
             /\ attempts' = Append(attempts, "uc_confirm")
             /\ UNCHANGED <<df, cache, files, lastLoad, cur, method1, method2,
                            accepted, returned>>
        ELSE LET out == google_drive_outcome(r, cur.path, files)
             IN  /\ accepted' = IF out.ok THEN Accepted(r) ELSE NoneAccepted
                 /\ IF out.ok
                    THEN /\ method1' = "ok"
                         /\ Return(cur.url, cur.ts, PathValue(cur.path), out.files)
                         /\ UNCHANGED <<attempts, method2>>
                    ELSE StartMethod2(out.files)
    /\ UNCHANGED <<rawdf, query, result, now, uploaded, fetchLog, misses>>

\* src/imei.py:72-97  the answer to the request that carries the confirm code
ConfirmResponse ==
    /\ pc = "confirm"
    /\ \E r \in Responses :
        LET out == google_drive_outcome(r, cur.path, files)
        IN  /\ accepted' = IF out.ok THEN Accepted(r) ELSE NoneAccepted
            /\ IF out.ok
               THEN /\ method1' = "ok"
                    /\ Return(cur.url, cur.ts, PathValue(cur.path), out.files)
                    /\ UNCHANGED <<attempts, method2>>
               ELSE StartMethod2(out.files)
    /\ UNCHANGED <<rawdf, query, result, now, uploaded, fetchLog, misses>>

\* src/imei.py:109-124 and 171-176  the answer to method 2's request
Method2Response ==
    /\ pc = "method2"
    /\ \E r \in Responses :
        LET out == export_link_outcome(r, cur.path, files)
        IN  /\ accepted' = IF out.ok THEN Accepted(r) ELSE NoneAccepted
            /\ method2' = IF out.ok THEN "ok" ELSE "failed"
            /\ Return(cur.url, cur.ts,
                      IF out.ok THEN PathValue(cur.path) ELSE NoneValue, out.files)
    /\ UNCHANGED <<rawdf, query, result, now, uploaded, fetchLog, misses,
                   attempts, method1>>

Next ==
    \/ Tick
    \/ Upload
    \/ Refresh
    \/ Load
    \/ Method1Response
    \/ ConfirmResponse
    \/ Method2Response

Spec == Init /\ [][Next]_vars

---------------------------------------------------------------------------
(* Claims about the retrieval pipeline, under Spec *)

Issued(kind) == \E i \in 1..Len(attempts) : attempts[i] = kind
Idle == pc = "idle"
FailureReported == returned = NoneValue /\ attempts # <<>>

\* C5 as stated: the export-as-spreadsheet link is requested first and the
\* download-by-id link (with at most one confirmation retry) second.
C5_ExportLinkFirst ==
    attempts \in { <<>>, <<"export">>, <<"export", "uc">>,
                   <<"export", "uc", "uc_confirm">> }

\* C5 amended: the download-by-id link is requested first, with at most one
\* confirmation retry, and the export-as-spreadsheet link second; the fetch
\* stops at the first method that succeeds, method 2 is requested whenever
\* method 1 fails, and failure is reported only after both have failed.
C5_DownloadByIdFirst ==
    /\ attempts \in { <<>>, <<"uc">>, <<"uc", "uc_confirm">>, <<"uc", "export">>,
                      <<"uc", "uc_confirm", "export">> }
    /\ method1 = "ok" => ~Issued("export") /\ method2 = "none"
    /\ method1 = "failed" => Issued("export")
    /\ Issued("export") => method1 = "failed"
    /\ returned.k = "path" => method1 = "ok" \/ method2 = "ok"
    /\ FailureReported =>
          method1 = "failed" /\ method2 = "failed" /\ Issued("uc") /\ Issued("export")

\* method 1 failed after its confirmation retry, method 2 was requested and
\* failed too, and the fetch reported failure
C5_Witness ==
    /\ Idle
    /\ attempts = <<"uc", "uc_confirm", "export">>
    /\ FailureReported

\* C6: no download method succeeds with a body under 1024 bytes or with an
\* HTML content type.
C6_RejectsSmallOrHtml ==
    accepted.k = "resp" =>
        /\ accepted.size >= MinFileSize
        /\ accepted.ctype # "text/html"

\* C7: with no refresh and no upload, two executions of the download methods
\* for the same URL are at least one TTL (300 s) apart.
C7_OneFetchPerTtl ==
    \A i, j \in 1..Len(fetchLog) :
        (i < j /\ fetchLog[i].url = fetchLog[j].url)
        => fetchLog[j].t - fetchLog[i].t >= CacheTtl

\* C8: a load that reuses the cached result of fetch_excel_file returns the
\* same table as the load that performed the fetch.
C8_CachedLoadSameTable ==
    (Idle /\ lastLoad.how = "cached") => df = lastLoad.originDf

\* C9: when load_data has returned, no staged temporary file remains.
C9_NoTempFileLeft ==
    Idle => DOMAIN files = {}

\* C10: every HTTP request a load issues carries a timeout.
C10_RequestsHaveTimeout ==
    request # NoRequest => request.timeout # NoTimeout

=============================================================================
